---------------------------- MODULE Spec2Model ----------------------------
(***************************************************************************)
(* K-means clustering (Lloyd's algorithm) and its pairwise-distance        *)
(* support function, from NetworkExamples_3.ipynb.                         *)
(*                                                                         *)
(* Numbers.  A tensor element is an exact rational [num, den] in lowest    *)
(* terms with den > 0; the element with den = 0 is NaN (what the mean of   *)
(* an empty selection, 0/0, produces).  +, -, *, / are exact.  A square    *)
(* root is rounded up to the next multiple of 1/Prec, so a positive        *)
(* radicand keeps a positive root.  Comparisons with NaN are false.        *)
(*                                                                         *)
(* Tensors.  A tensor of rank r is a sequence nested r deep; where the     *)
(* rank of a result depends on the data (squeeze) the value is a record    *)
(* [ndim, data].                                                           *)
(*                                                                         *)
(* The training regime do_training of NetworkExamples_2.ipynb is modelled  *)
(* epoch by epoch: the loss of an epoch's last batch is any of Losses.     *)
(***************************************************************************)
EXTENDS Integers, Sequences, FiniteSets, TLC

\* ------------------------------------------------------------------ bounds
MaxN == 3          \* most input points of a kmeans run
MaxPts == 2        \* most points of a tensor in a direct pairwise_distance call
Prec == 128        \* resolution of a square root: multiples of 1/Prec
MaxEpochs == 4     \* most epochs asked of do_training
MaxStop == 3       \* greatest early_stop of do_training

\* -------------------------------------------------------------- arithmetic
\* The operations on elements are functions: a function is applied to the
\* values of its arguments.
Abs(a) == IF a < 0 THEN 0 - a ELSE a

GCD[x \in Nat, y \in Nat] == IF y = 0 THEN x ELSE GCD[y, x % y]

Elem == [num : Int, den : Nat]

NaN == [num |-> 0, den |-> 0]

IsNaN(x) == x.den = 0

\* The rational n/d in lowest terms; d = 0 gives NaN.
Norm[n \in Int, d \in Int] ==
    IF d = 0 THEN NaN
    ELSE IF d < 0 THEN [num |-> (0 - n) \div GCD[Abs(n), 0 - d],
                        den |-> (0 - d) \div GCD[Abs(n), 0 - d]]
    ELSE [num |-> n \div GCD[Abs(n), d], den |-> d \div GCD[Abs(n), d]]

Whole(n) == [num |-> n, den |-> 1]

\* x + y
RAdd[x \in Elem, y \in Elem] == Norm[x.num * y.den + y.num * x.den, x.den * y.den]

\* x - y
RSub[x \in Elem, y \in Elem] == Norm[x.num * y.den - y.num * x.den, x.den * y.den]

\* x * y
RMul[x \in Elem, y \in Elem] == Norm[x.num * y.num, x.den * y.den]

\* x / n for a count n; 0/0 is NaN (the mean of no rows).
RDivInt[x \in Elem, n \in Nat] == Norm[x.num, x.den * n]

\* x < y as IEEE compares: false when either side is NaN.
RLess[x \in Elem, y \in Elem] ==
    /\ ~IsNaN(x)
    /\ ~IsNaN(y)
    /\ x.num * y.den < y.num * x.den

\* x >= y as IEEE compares: false when either side is NaN.
RGeq[x \in Elem, y \in Elem] ==
    /\ ~IsNaN(x)
    /\ ~IsNaN(y)
    /\ x.num * y.den >= y.num * x.den

\* x / y for y # 0; NaN when either side is NaN.
RDiv[x \in Elem, y \in Elem] == Norm[x.num * y.den, x.den * y.num]

CeilDiv(a, b) == (a + b - 1) \div b

\* A power of two, from t on, whose square reaches n.
SqrtTop[n \in Nat, t \in Nat] == IF t * t >= n THEN t ELSE SqrtTop[n, 2 * t]

\* The least r in lo..hi with r * r >= n, by bisection.
SqrtLeast[n \in Nat, lo \in Nat, hi \in Nat] ==
    IF lo >= hi THEN lo
    ELSE IF ((lo + hi) \div 2) * ((lo + hi) \div 2) >= n
         THEN SqrtLeast[n, lo, (lo + hi) \div 2]
         ELSE SqrtLeast[n, (lo + hi) \div 2 + 1, hi]

\* The least r with r * r >= n.
ISqrtCeil[n \in Nat] == SqrtLeast[n, 0, SqrtTop[n, 1]]

\* torch.sqrt / math.sqrt of one element: rounded up to a multiple of 1/Prec.
\* The root of a negative element is NaN.
RSqrt[x \in Elem] ==
    IF IsNaN(x) \/ x.num < 0 THEN NaN
    ELSE Norm[ISqrtCeil[CeilDiv(x.num * Prec * Prec, x.den)], Prec]

\* ----------------------------------------------------------------- tensors
\* Sum of a vector of elements.
SumVec(v) ==
    LET s[i \in 0..Len(v)] == IF i = 0 THEN Whole(0) ELSE RAdd[s[i - 1], v[i]]
    IN  s[Len(v)]

\* tensor.unsqueeze(dim=1): N x M  ->  N x 1 x M
Unsqueeze1(t) == [i \in 1..Len(t) |-> <<t[i]>>]

\* tensor.unsqueeze(dim=0): N x M  ->  1 x N x M
Unsqueeze0(t) == <<t>>

\* Broadcasting: a dimension of size 1 is read at index 1 whatever the index.
Bix(len, i) == IF len = 1 THEN 1 ELSE i

BLen(a, b) == IF a = 1 THEN b ELSE a

\* (A - B) ** 2.0 for rank-3 tensors A and B that broadcast against each other.
BroadcastSqDiff(A, B) ==
    [i \in 1..BLen(Len(A), Len(B)) |->
       LET Ai == A[Bix(Len(A), i)]
           Bi == B[Bix(Len(B), i)]
       IN  [j \in 1..BLen(Len(Ai), Len(Bi)) |->
              LET a == Ai[Bix(Len(Ai), j)]
                  b == Bi[Bix(Len(Bi), j)]
              IN  [d \in 1..BLen(Len(a), Len(b)) |->
                     LET df == RSub[a[Bix(Len(a), d)], b[Bix(Len(b), d)]]
                     IN  RMul[df, df]]]]

\* t.sum(dim=-1) of a rank-3 tensor: rank 2.
SumLast(t) == [i \in 1..Len(t) |-> [j \in 1..Len(t[i]) |-> SumVec(t[i][j])]]

\* t.squeeze() of a rank-2 tensor of shape n1 x n2: every dimension of size 1
\* is dropped, so the rank of the result is 2, 1 or 0.
Squeeze(t, n1, n2) ==
    IF n1 # 1 /\ n2 # 1 THEN [ndim |-> 2, data |-> t]
    ELSE IF n1 = 1 /\ n2 # 1 THEN [ndim |-> 1, data |-> t[1]]
    ELSE IF n1 # 1 /\ n2 = 1 THEN [ndim |-> 1, data |-> [i \in 1..n1 |-> t[i][1]]]
    ELSE [ndim |-> 0, data |-> t[1][1]]

\* torch.sqrt, elementwise, of a tensor of rank 0, 1 or 2.
SqrtAll(t) ==
    [ndim |-> t.ndim,
     data |-> IF t.ndim = 0 THEN RSqrt[t.data]
              ELSE IF t.ndim = 1 THEN [i \in 1..Len(t.data) |-> RSqrt[t.data[i]]]
              ELSE [i \in 1..Len(t.data) |->
                      [j \in 1..Len(t.data[i]) |-> RSqrt[t.data[i][j]]]]]

\* An optional argument: <<>> is None, <<v>> is the value v.
None == <<>>

Some(v) == <<v>>

\* pairwise_distance(tensor1, tensor2=None)
pairwise_distance(tensor1, tensor2opt) ==
    LET tensor2 == IF tensor2opt = None THEN tensor1 ELSE tensor2opt[1]
        A == Unsqueeze1(tensor1)
        B == Unsqueeze0(tensor2)
        distances == BroadcastSqDiff(A, B)
    IN  SqrtAll(Squeeze(SumLast(distances), Len(tensor1), Len(tensor2)))

\* distance_3d(a, b): the scalar reference, on points with fields x, y, z.
distance_3d(a, b) ==
    LET dx == RSub[a.x, b.x]
        dy == RSub[a.y, b.y]
        dz == RSub[a.z, b.z]
    IN  RSqrt[RAdd[RAdd[RMul[dx, dx], RMul[dy, dy]], RMul[dz, dz]]]

\* ------------------------------------------------------------------ kmeans
\* Mutant: a value takes over when it is not greater than the least so far,
\* so the last of several least values wins.
ArgMinRowLast(row) ==
    LET scan[i \in 2..Len(row) + 1, best \in 1..Len(row)] ==
            IF i > Len(row) \/ IsNaN(row[best]) THEN best
            ELSE IF ~RLess[row[best], row[i]] THEN scan[i + 1, i]
            ELSE scan[i + 1, best]
    IN  scan[2, 1] - 1

\* Mutant: the scan of argmax, a value takes over when it is not <= the
\* greatest so far.
ArgMaxRow(row) ==
    LET scan[i \in 2..Len(row) + 1, best \in 1..Len(row)] ==
            IF i > Len(row) \/ IsNaN(row[best]) THEN best
            ELSE IF ~RGeq[row[best], row[i]] THEN scan[i + 1, i]
            ELSE scan[i + 1, best]
    IN  scan[2, 1] - 1

\* The scan of one row by argmin: a value takes over when it is not >= the
\* least so far, and the scan stops at a NaN.  Positions are 1-based here.
ArgMinRow(row) ==
    LET scan[i \in 2..Len(row) + 1, best \in 1..Len(row)] ==
            IF i > Len(row) \/ IsNaN(row[best]) THEN best
            ELSE IF ~RGeq[row[i], row[best]] THEN scan[i + 1, i]
            ELSE scan[i + 1, best]
    IN  scan[2, 1] - 1

\* torch.argmin(distances, dim=1): defined on a tensor of rank 2 only; on a
\* tensor of lower rank it raises IndexError (dimension out of range), and on
\* rows of no elements it raises too (nothing to reduce).
ArgMinRaises(distances) ==
    \/ distances.ndim < 2
    \/ \E i \in 1..Len(distances.data) : Len(distances.data[i]) = 0

ArgMinDim1(distances) ==
    [i \in 1..Len(distances.data) |-> ArgMinRow(distances.data[i])]

\* torch.nonzero(clusters == ndx): an n x 1 tensor of the (0-based) positions.
Nonzero(cl, ndx) ==
    LET F[i \in 0..Len(cl)] ==
          IF i = 0 THEN <<>>
          ELSE IF cl[i] = ndx THEN Append(F[i - 1], <<i - 1>>)
          ELSE F[i - 1]
    IN  F[Len(cl)]

\* torch.index_select(X, 0, index): index of rank 1, or of rank 0 (one row).
IndexSelect(t, index) ==
    IF index.ndim = 0 THEN <<t[index.data + 1]>>
    ELSE [j \in 1..Len(index.data) |-> t[index.data[j] + 1]]

\* Mutant: the sum is divided by the count or by 1, whichever is larger, so
\* the mean of no rows is a row of zeros.
MeanDim0Guarded(rows, m) ==
    [d \in 1..m |->
       RDivInt[SumVec([j \in 1..Len(rows) |-> rows[j][d]]),
               IF Len(rows) = 0 THEN 1 ELSE Len(rows)]]

\* rows.mean(dim=0) of an n x m tensor; n = 0 gives a row of NaN.
MeanDim0(rows, m) ==
    [d \in 1..m |->
       RDivInt[SumVec([j \in 1..Len(rows) |-> rows[j][d]]), Len(rows)]]

\* Mutant: the mean is taken over all the rows, not over the selected ones.
MoveCentroidAll(t, cl, ndx) == MeanDim0(t, Len(t[1]))

\* The body of the loop "for ndx in range(n_clusters)" for one ndx.
MoveCentroid(t, cl, ndx) ==
    LET nz == Nonzero(cl, ndx)
        selected == IndexSelect(t, Squeeze(nz, Len(nz), 1))
    IN  MeanDim0(selected, Len(t[1]))

\* Mutant: before each row is rewritten the points are assigned again, to the
\* centroids as far as they are rewritten.
MoveCentroidsReassign(t, cl, cents) ==
    LET after[n \in 0..Len(cents)] ==
            IF n = 0 THEN cents
            ELSE [after[n - 1] EXCEPT ![n] =
                    MoveCentroid(t, ArgMinDim1(pairwise_distance(t, Some(after[n - 1]))),
                                 n - 1)]
    IN  after[Len(cents)]

\* The whole loop: centroids is rewritten in place, row by row; after[n] is
\* the tensor once the rows ndx = 0..n-1 are rewritten.
MoveCentroids(t, cl, cents) ==
    LET after[n \in 0..Len(cents)] ==
            IF n = 0 THEN cents
            ELSE [after[n - 1] EXCEPT ![n] = MoveCentroid(t, cl, n - 1)]
    IN  after[Len(cents)]

\* torch.sum(torch.sqrt(torch.sum((centroids-centroids_pre)**2, dim=1)))
Shift(cents, pre) ==
    SumVec([k \in 1..Len(cents) |->
              RSqrt[SumVec([d \in 1..Len(cents[k]) |->
                              LET df == RSub[cents[k][d], pre[k][d]]
                              IN  RMul[df, df]])]])

\* X[indices]: the rows of X at the (0-based) indices, copied.
Rows(t, indices) == [k \in 1..Len(indices) |-> t[indices[k] + 1]]

\* Mutant: the centroids are a view of X, so that writing row k of the
\* centroids writes row indices[k] of X.
InputAfterMoveShared(t, indices, moved) ==
    [i \in 1..Len(t) |->
       IF \E k \in 1..Len(indices) : indices[k] + 1 = i
       THEN moved[CHOOSE k \in 1..Len(indices) :
                    /\ indices[k] + 1 = i
                    /\ \A j \in k + 1..Len(indices) : indices[j] + 1 # i]
       ELSE t[i]]

\* X once "centroids[ndx] = ..." has rewritten the centroids into moved:
\* indexing by an array of indices (X[indices], advanced indexing) gives a
\* tensor with storage of its own, so the writes do not reach X.
InputAfterMove(t, indices, moved) == t

\* ------------------------------------------------------------------- state
VARIABLES
    pc,             \* where the run is: "start", "assign", "update", "test",
                    \* "done" (returned) or "error" (an exception left kmeans)
    X,              \* the input points, an N x M tensor
    n_clusters,     \* K
    tol,            \* the tolerance argument
    sqrt_tol,       \* math.sqrt(tol)
    indices,        \* what np.random.choice drew in initial_points
    centroids,      \* the K x M centroid tensor, rewritten in place
    centroids_pre,  \* the clone taken before the centroids move
    clusters,       \* the assignment vector, None before the first Assign
    shift,          \* the shift measured in this iteration
    iters,          \* completed Update steps: 0, 1, or 2 for two or more
    tensor1,        \* a direct call of pairwise_distance: its first argument,
    tensor2,        \* its optional second argument,
    result,         \* and what it returned, None before the return
    epochs,         \* do_training: the argument epochs,
    early_stop,     \* the argument early_stop,
    epoch,          \* the epochs run so far,
    loss_history,   \* the loss recorded at the end of each of them,
    lr              \* and optimizer.param_groups[0]['lr']

kmvars == <<X, n_clusters, tol, sqrt_tol, indices, centroids, centroids_pre,
            clusters, shift, iters>>

pdvars == <<tensor1, tensor2, result>>

dtvars == <<epochs, early_stop, epoch, loss_history, lr>>

vars == <<pc, kmvars, pdvars, dtvars>>

\* ------------------------------------------------------------------ inputs
\* A point with whole coordinates, as a row of elements.
Point(cs) == [d \in 1..Len(cs) |-> Whole(cs[d])]

\* One-dimensional point sets of 1..MaxN points with coordinates in Coords,
\* listed in ascending order:
\* kmeans reads the rows of X only through the drawn indices and the
\* assignment vector, so a run on a reordered X is this run with the draw and
\* the vector reordered alike.
Coords == {0, 1, 2, 3}

Ascending(cs) == \A i \in 1..Len(cs) - 1 : cs[i] <= cs[i + 1]

LineSets ==
    UNION {{[i \in 1..n |-> Point(<<cs[i]>>)] :
              cs \in {c \in [1..n -> Coords] : Ascending(c)}} : n \in 1..MaxN}

\* The four corners of section 8's scenario.
Scenario == <<Point(<<0, 0>>), Point(<<0, 1>>), Point(<<10, 0>>), Point(<<10, 1>>)>>

Inputs == LineSets \cup {Scenario}

\* tol=1e-5 is the default of kmeans; the other is a caller's coarse tolerance.
DefaultTol == [num |-> 1, den |-> 100000]

CoarseTol == [num |-> 4, den |-> 1]

Tols == {DefaultTol, CoarseTol}

\* The points of the notebook's comparison cell (a1, a2, b1, b2) and the
\* origin; a tensor handed to pairwise_distance holds 1..MaxPts of them.
PDPoints ==
    {Point(<<1, 2, 3>>), Point(<<4, 5, 6>>), Point(<<11, 12, 13>>),
     Point(<<14, 15, 16>>), Point(<<0, 0, 0>>)}

PDTensors == UNION {[1..n -> PDPoints] : n \in 1..MaxPts}

\* What loss.item() can be at the end of an epoch: zero, positive values on
\* both sides of the 0.005 test, and NaN (a diverged model).
Losses == {Whole(0), Whole(1), Whole(200), Whole(201), NaN}

\* The learning rate the optimizer comes with: 1e-3, 2.5e-8 and 5e-9.
InitialLrs ==
    {[num |-> 1, den |-> 1000], [num |-> 1, den |-> 40000000],
     [num |-> 1, den |-> 200000000]}

\* do_training is not running.
DTIdle ==
    /\ epochs = 0
    /\ early_stop = 0
    /\ epoch = 0
    /\ loss_history = <<>>
    /\ lr = Whole(0)

\* ----------------------------------------------------------------- actions
Init ==
    /\ pc = "start"
    /\ X \in Inputs
    /\ n_clusters \in 1..MaxN + 1
    /\ n_clusters <= Len(X)
    /\ tol \in Tols
    /\ sqrt_tol = Whole(0)
    /\ indices = <<>>
    /\ centroids = <<>>
    /\ centroids_pre = <<>>
    /\ clusters = None
    /\ shift = Whole(0)
    /\ iters = 0
    /\ tensor1 = <<>>
    /\ tensor2 = None
    /\ result = None
    /\ DTIdle

\* centroids = initial_points(X, n_clusters); sqrt_tol = math.sqrt(tol).
\* np.random.choice(len(X), n) draws n indices with replacement, whatever n >= 0
\* is; a negative n is a negative dimension, which raises ValueError.
InitialPoints ==
    /\ pc = "start"
    /\ IF n_clusters < 0
       THEN /\ pc' = "error"
            /\ UNCHANGED <<indices, centroids, sqrt_tol>>
       ELSE /\ \E ix \in [1..n_clusters -> 0..Len(X) - 1] :
                 /\ indices' = ix
                 /\ centroids' = Rows(X, ix)
            /\ sqrt_tol' = RSqrt[tol]
            /\ pc' = "assign"
    /\ UNCHANGED <<pdvars, dtvars>>
    /\ UNCHANGED <<X, n_clusters, tol, centroids_pre, clusters, shift, iters>>

\* distances = pairwise_distance(X, centroids); clusters = argmin(distances, dim=1);
\* centroids_pre = centroids.clone()
Assign ==
    /\ pc = "assign"
    /\ \E distances \in {pairwise_distance(X, Some(centroids))} :
           IF ArgMinRaises(distances)
           THEN /\ pc' = "error"
                /\ UNCHANGED <<clusters, centroids_pre>>
           ELSE /\ clusters' = ArgMinDim1(distances)
                /\ centroids_pre' = centroids
                /\ pc' = "update"
    /\ UNCHANGED <<pdvars, dtvars>>
    /\ UNCHANGED <<X, n_clusters, tol, sqrt_tol, indices, centroids, shift, iters>>

\* for ndx in range(n_clusters): centroids[ndx] = mean of the rows selected;
\* shift = torch.sum(torch.sqrt(torch.sum((centroids-centroids_pre)**2, dim=1)))
Update ==
    /\ pc = "update"
    /\ \E moved \in {MoveCentroids(X, clusters, centroids)} :
         /\ centroids' = moved
         /\ shift' = Shift(moved, centroids_pre)
         /\ X' = InputAfterMove(X, indices, moved)
    /\ iters' = IF iters < 2 THEN iters + 1 ELSE iters
    /\ pc' = "test"
    /\ UNCHANGED <<pdvars, dtvars>>
    /\ UNCHANGED <<n_clusters, tol, sqrt_tol, indices, centroids_pre, clusters>>

\* Mutant: "not shift >= sqrt_tol", which a NaN shift satisfies.
BelowTolNotGeq(sh, st) == ~RGeq[sh, st]

\* shift < sqrt_tol
BelowTol(sh, st) == RLess[sh, st]

\* if shift < sqrt_tol: break ... return clusters, centroids
Break ==
    /\ pc = "test"
    /\ BelowTol(shift, sqrt_tol)
    /\ pc' = "done"
    /\ UNCHANGED <<pdvars, dtvars>>
    /\ UNCHANGED <<X, n_clusters, tol, sqrt_tol, indices, centroids, centroids_pre,
                   clusters, shift, iters>>

\* otherwise: the next pass of "while True"
Continue ==
    /\ pc = "test"
    /\ ~BelowTol(shift, sqrt_tol)
    /\ pc' = "assign"
    /\ UNCHANGED <<pdvars, dtvars>>
    /\ UNCHANGED <<X, n_clusters, tol, sqrt_tol, indices, centroids, centroids_pre,
                   clusters, shift, iters>>

\* A call pairwise_distance(tensor1, tensor2) from the notebook.
PairwiseDistance ==
    /\ pc = "call"
    /\ result' = Some(pairwise_distance(tensor1, tensor2))
    /\ pc' = "returned"
    /\ UNCHANGED <<tensor1, tensor2>>
    /\ UNCHANGED <<kmvars, dtvars>>

Next == InitialPoints \/ Assign \/ Update \/ Break \/ Continue

Spec == Init /\ [][Next]_vars

\* A running kmeans moves on: every action of Next changes pc and some action
\* is enabled wherever pc is neither "done" nor "error", so weak fairness of
\* "pc changes" is weak fairness of Next.
Advance ==
    /\ pc \notin {"done", "error"}
    /\ pc' \in {"assign", "update", "test", "done", "error"} \ {pc}

FairSpec == Spec /\ WF_pc(Advance)

\* kmeans called with any n_clusters, the invalid ones included: kmeans and
\* initial_points test neither n_clusters <= 0 nor n_clusters > len(X).
AnyKInit ==
    /\ pc = "start"
    /\ X \in Inputs
    /\ n_clusters \in -1..Len(X) + 1
    /\ tol \in Tols
    /\ sqrt_tol = Whole(0)
    /\ indices = <<>>
    /\ centroids = <<>>
    /\ centroids_pre = <<>>
    /\ clusters = None
    /\ shift = Whole(0)
    /\ iters = 0
    /\ tensor1 = <<>>
    /\ tensor2 = None
    /\ result = None
    /\ DTIdle

AnyKSpec == AnyKInit /\ [][Next]_vars

\* Direct calls of pairwise_distance.
PDInit ==
    /\ pc = "call"
    /\ tensor1 \in PDTensors
    /\ tensor2 \in {None} \cup {Some(t) : t \in PDTensors}
    /\ result = None
    /\ X = <<>>
    /\ n_clusters = 0
    /\ tol = DefaultTol
    /\ sqrt_tol = Whole(0)
    /\ indices = <<>>
    /\ centroids = <<>>
    /\ centroids_pre = <<>>
    /\ clusters = None
    /\ shift = Whole(0)
    /\ iters = 0
    /\ DTIdle

PDNext == PairwiseDistance

PDSpec == PDInit /\ [][PDNext]_vars

\* ------------------------------------------------------------- do_training
\* 0.005 of "diff/loss_history[-1] < 0.005"
FlatRatio == [num |-> 1, den |-> 200]

\* 1e-8 of "lr < 1e-8"
LrFloor == [num |-> 1, den |-> 100000000]

\* max(v) as Python scans: an item takes over when it is > the greatest so far.
PyMax(v) ==
    LET scan[i \in 1..Len(v)] ==
            IF i = 1 THEN v[1]
            ELSE IF RLess[scan[i - 1], v[i]] THEN v[i] ELSE scan[i - 1]
    IN  scan[Len(v)]

\* min(v) as Python scans: an item takes over when it is < the least so far.
PyMin(v) ==
    LET scan[i \in 1..Len(v)] ==
            IF i = 1 THEN v[1]
            ELSE IF RLess[v[i], scan[i - 1]] THEN v[i] ELSE scan[i - 1]
    IN  scan[Len(v)]

\* h[-k:] for k >= 0: the last k items (all of them when k > len(h)); -0 is
\* 0, so h[-0:] is the whole list.
LastItems(h, k) ==
    IF k = 0 \/ k >= Len(h) THEN h ELSE SubSeq(h, Len(h) - k + 1, Len(h))

\* diff = max(loss_history[-early_stop:]) - min(loss_history[-early_stop:])
Diff(h, k) == RSub[PyMax(LastItems(h, k)), PyMin(LastItems(h, k))]

\* diff/loss_history[-1] divides Python floats: a zero divisor raises
\* ZeroDivisionError.
DivisionRaises(h) == h[Len(h)] = Whole(0)

\* diff/loss_history[-1] < 0.005
NoImprovement(h, k) == RLess[RDiv[Diff(h, k), h[Len(h)]], FlatRatio]

\* One pass of "for epoch in range(1, epochs+1)": the batches are trained
\* (X_train is not empty), the last batch's loss is recorded, and the learning
\* rate is reviewed.
TrainEpoch ==
    /\ pc = "train"
    /\ epoch < epochs
    /\ epoch' = epoch + 1
    /\ \E loss \in Losses :
         \E h \in {Append(loss_history, loss)} :
            /\ loss_history' = h
            /\ IF Len(h) < early_stop
               THEN /\ lr' = lr
                    /\ pc' = "train"
               ELSE IF DivisionRaises(h)
               THEN /\ lr' = lr
                    /\ pc' = "raised"
               ELSE \E newlr \in {IF NoImprovement(h, early_stop)
                                  THEN RDivInt[lr, 2] ELSE lr} :
                      /\ lr' = newlr
                      /\ pc' = IF RLess[newlr, LrFloor] THEN "stopped" ELSE "train"
    /\ UNCHANGED <<epochs, early_stop>>
    /\ UNCHANGED <<kmvars, pdvars>>

\* range(1, epochs+1) is exhausted: do_training returns.
Exhausted ==
    /\ pc = "train"
    /\ epoch = epochs
    /\ pc' = "trained"
    /\ UNCHANGED dtvars
    /\ UNCHANGED <<kmvars, pdvars>>

DTInit ==
    /\ pc = "train"
    /\ epochs \in 0..MaxEpochs
    /\ early_stop \in 0..MaxStop
    /\ epoch = 0
    /\ loss_history = <<>>
    /\ lr \in InitialLrs
    /\ X = <<>>
    /\ n_clusters = 0
    /\ tol = DefaultTol
    /\ sqrt_tol = Whole(0)
    /\ indices = <<>>
    /\ centroids = <<>>
    /\ centroids_pre = <<>>
    /\ clusters = None
    /\ shift = Whole(0)
    /\ iters = 0
    /\ tensor1 = <<>>
    /\ tensor2 = None
    /\ result = None

DTNext == TrainEpoch \/ Exhausted

DTSpec == DTInit /\ [][DTNext]_vars

\* ------------------------------------------------------- claims: helpers
RLeq[x \in Elem, y \in Elem] == RGeq[y, x]

\* The exact squared Euclidean distance between two rows.
SqDist(p, c) ==
    SumVec([d \in 1..Len(p) |-> LET df == RSub[p[d], c[d]] IN RMul[df, df]])

HasNaN(cents) == \E k \in 1..Len(cents) : \E d \in 1..Len(cents[k]) : IsNaN(cents[k][d])

\* The positions (1-based) of the points assigned to centroid k (0-based).
Members(k) == {i \in 1..Len(clusters) : clusters[i] = k}

\* An Assign step has been attempted.
AssignAttempted == pc \in {"update", "test", "done", "error"} \/ iters > 0

\* The vector v assigns every point of X the nearest row of cents, the lowest
\* index among the nearest.
NearestLowest(v, cents) ==
    /\ Len(v) = Len(X)
    /\ \A i \in 1..Len(X) :
         /\ v[i] \in 0..Len(cents) - 1
         /\ \A k \in 1..Len(cents) :
              /\ RLeq[SqDist(X[i], cents[v[i] + 1]), SqDist(X[i], cents[k])]
              /\ k < v[i] + 1 =>
                   RLess[SqDist(X[i], cents[v[i] + 1]), SqDist(X[i], cents[k])]

\* ------------------------------------------------------------------ claims
\* C1: after every Assign step the assignment vector has exactly N entries,
\* each a centroid index in [0, K), for every 1 <= K <= N, K = 1 included.
C1_AssignmentVector ==
    AssignAttempted =>
        /\ Len(clusters) = Len(X)
        /\ \A i \in 1..Len(clusters) : clusters[i] \in 0..n_clusters - 1

\* C2: in each Assign step every point gets the index of a centroid at
\* minimal distance among the current K centroids, the lowest index on a tie.
C2_NearestCentroid ==
    pc = "update" => NearestLowest(clusters, centroids)

\* The exact sum of coordinate d of the points of X at the positions S.
CoordSum(S, d) ==
    LET s[i \in 0..Len(X)] ==
            IF i = 0 THEN Whole(0)
            ELSE IF i \in S THEN RAdd[s[i - 1], X[i][d]]
            ELSE s[i - 1]
    IN  s[Len(X)]

\* Row c is the coordinate-wise mean of the points of X at the positions S.
IsMeanOf(c, S) ==
    \A d \in 1..Len(c) : RMul[c[d], Whole(Cardinality(S))] = CoordSum(S, d)

\* C3: after each Update step every centroid k that has assigned points is the
\* coordinate-wise mean of exactly the points assigned to k in this iteration.
C3_CentroidIsMean ==
    pc \in {"test", "done"} =>
        \A k \in 0..n_clusters - 1 :
            Members(k) # {} => IsMeanOf(centroids[k + 1], Members(k))

C3_Witness ==
    /\ pc = "test"
    /\ centroids # centroids_pre
    /\ \E k \in 1..n_clusters - 1 : Cardinality(Members(k)) >= 2
    /\ Members(0) # {}

\* r is q's square root rounded up to a multiple of 1/Prec.
IsRootUp(r, q) ==
    /\ RLeq[q, RMul[r, r]]
    /\ \/ r = Whole(0)
       \/ LET below == RSub[r, Norm[1, Prec]] IN RLess[RMul[below, below], q]

\* The sum over the centroids of the exact squared distance moved.
SqMoved(cents, pre) ==
    LET s[k \in 0..Len(cents)] ==
            IF k = 0 THEN Whole(0) ELSE RAdd[s[k - 1], SqDist(cents[k], pre[k])]
    IN  s[Len(cents)]

\* sh is the total of the distances the centroids moved, within the rounding
\* of the K roots: sum d_k <= sh <= sum d_k + K/Prec, stated on squares with
\* sum d_k^2 <= (sum d_k)^2 <= K * sum d_k^2.  A NaN centroid makes it NaN.
IsTotalShift(sh, cents, pre) ==
    IF HasNaN(cents) \/ HasNaN(pre) THEN IsNaN(sh)
    ELSE LET q == SqMoved(cents, pre)
             slack == Norm[Len(cents), Prec]
             low == RSub[sh, slack]
         IN  /\ ~IsNaN(sh)
             /\ RLeq[q, RMul[sh, sh]]
             /\ \/ RLeq[sh, slack]
                \/ RLeq[RMul[low, low], RMul[Whole(Len(cents)), q]]

\* C4: after each Update the total shift of the centroids is compared with
\* sqrt(tol); kmeans returns exactly when shift < sqrt(tol) and otherwise goes
\* to another Assign with the updated centroids; it never returns before one
\* Assign and one Update have run.
C4_StopRule ==
    [][/\ pc' = "test" =>
            /\ IsTotalShift(shift', centroids', centroids_pre')
            /\ IsRootUp(sqrt_tol', tol')
       /\ pc = "test" =>
            /\ pc' = "done" <=> RLess[shift, sqrt_tol]
            /\ pc' = "assign" <=> ~RLess[shift, sqrt_tol]
            /\ centroids' = centroids
            /\ clusters' = clusters
       /\ pc' = "done" =>
            /\ pc = "test"
            /\ iters >= 1
            /\ clusters # None]_vars

C4_Witness ==
    /\ pc = "done"
    /\ iters >= 2
    /\ tol = DefaultTol

\* C5: every run of kmeans comes to an end.  (Stated for any end, a return or
\* an exception; the claim asks for a return.)
C5_Terminates == <>(pc \in {"done", "error"})

\* C6: whenever kmeans returns, an Assign step with the returned centroids
\* reproduces the returned clusters.
C6_Idempotent ==
    pc = "done" => NearestLowest(clusters, centroids)

\* C6 as amended: whenever kmeans returns and its last Update moved no
\* centroid, an Assign step with the returned centroids reproduces the
\* returned clusters.
C6_IdempotentAtFixpoint ==
    (pc = "done" /\ centroids = centroids_pre) => NearestLowest(clusters, centroids)

C6_Witness ==
    /\ pc = "done"
    /\ centroids = centroids_pre
    /\ iters >= 2
    /\ \E i \in 1..Len(X) : \E k \in 1..n_clusters :
          /\ k # clusters[i] + 1
          /\ SqDist(X[i], centroids[k]) = SqDist(X[i], centroids[clusters[i] + 1])

\* The scenario of section 8 and its expected result.
ScenarioRun == X = Scenario /\ n_clusters = 2

Half == Norm[1, 2]

LeftCentre == <<Whole(0), Half>>

RightCentre == <<Whole(10), Half>>

ScenarioResult ==
    \/ centroids = <<LeftCentre, RightCentre>> /\ clusters = <<0, 0, 1, 1>>
    \/ centroids = <<RightCentre, LeftCentre>> /\ clusters = <<1, 1, 0, 0>>

\* The draw took one of the points 0, 1 and one of the points 2, 3.
SplitDraw ==
    /\ Len(indices) = 2
    /\ (indices[1] \in {0, 1}) # (indices[2] \in {0, 1})

\* C7: on the scenario every draw of initial_points leads kmeans to return the
\* centroids [0, 0.5] and [10, 0.5] with points 0, 1 in one cluster and 2, 3
\* in the other.
C7_ScenarioAnyDraw ==
    (ScenarioRun /\ pc = "done") => ScenarioResult

\* C7 as amended: on the scenario every draw that takes one of the points 0, 1
\* and one of the points 2, 3 leads kmeans to return that result, within two
\* iterations.
C7_ScenarioSplitDraw ==
    (ScenarioRun /\ SplitDraw) =>
        /\ pc # "error"
        /\ ~HasNaN(centroids)
        /\ ~(pc = "assign" /\ iters >= 2)
        /\ (pc = "test" /\ iters >= 2) => RLess[shift, sqrt_tol]
        /\ pc = "done" => ScenarioResult

C7_Witness ==
    /\ ScenarioRun
    /\ SplitDraw
    /\ pc = "done"
    /\ iters = 2

\* K = N and the N points are pairwise distinct.
OnePerPoint ==
    /\ n_clusters = Len(X)
    /\ \A i, j \in 1..Len(X) : X[i] = X[j] => i = j

\* Every point is its own centroid, alone in its cluster.
OwnCentroids ==
    \A i \in 1..Len(X) :
        /\ centroids[clusters[i] + 1] = X[i]
        /\ Members(clusters[i]) = {i}

\* No index drawn twice.
DistinctDraw == \A a, b \in 1..Len(indices) : indices[a] = indices[b] => a = b

\* The run is one zero-shift iteration and then the return.
SingleIteration ==
    /\ pc # "error"
    /\ ~(pc = "assign" /\ iters >= 1)
    /\ pc \in {"test", "done"} => OwnCentroids /\ iters = 1 /\ shift = Whole(0)

\* C8: with K = N and distinct points every run is a single zero-shift
\* iteration that leaves every point its own centroid, alone in its cluster.
C8_OnePerPointAnyDraw ==
    (OnePerPoint /\ pc # "start") => SingleIteration

\* C8 where no centroid is left without points and argmin does not raise:
\* with K = N >= 2, distinct points and a draw that takes every index once,
\* the run is a single zero-shift iteration that leaves every point its own
\* centroid, alone in its cluster.
C8_OnePerPointDistinctDraw ==
    (OnePerPoint /\ Len(X) >= 2 /\ pc # "start" /\ DistinctDraw) => SingleIteration

C8_DistinctDrawReturns ==
    /\ pc = "done"
    /\ OnePerPoint
    /\ Len(X) >= 3
    /\ DistinctDraw
    /\ indices[1] # 0

\* A row of three elements as the namedtuple Point3D(x, y, z).
Point3D(p) == [x |-> p[1], y |-> p[2], z |-> p[3]]

\* The second point set of the call: tensor1 when tensor2 is omitted.
SecondSet == IF tensor2 = None THEN tensor1 ELSE tensor2[1]

\* C9: entry [i][j] of pairwise_distance(A, B) is the Euclidean distance
\* between A[i] and B[j] (its square is the sum of the squared coordinate
\* differences, as distance_3d computes it); with B omitted, B is A.
C9_PairwiseEntries ==
    pc = "returned" =>
        /\ result[1].ndim = 2
        /\ \A i \in 1..Len(tensor1) : \A j \in 1..Len(SecondSet) :
             /\ result[1].data[i][j] =
                  distance_3d(Point3D(tensor1[i]), Point3D(SecondSet[j]))
             /\ IsRootUp(result[1].data[i][j], SqDist(tensor1[i], SecondSet[j]))

\* C10: pairwise_distance(A, B) returns a two-dimensional N1 x N2 matrix for
\* all N1, N2 >= 1, the cases N1 = 1 and N2 = 1 included.
C10_AlwaysMatrix ==
    pc = "returned" =>
        /\ result[1].ndim = 2
        /\ Len(result[1].data) = Len(tensor1)
        /\ \A i \in 1..Len(tensor1) : Len(result[1].data[i]) = Len(SecondSet)

\* n_clusters is not in 1..N.
InvalidK == n_clusters <= 0 \/ n_clusters > Len(X)

\* C11: kmeans called with K <= 0 or K > N fails at initialization: no Assign
\* step runs, and neither clusters nor centroids come into being.
C11_InvalidKRejected ==
    InvalidK =>
        /\ pc \in {"start", "error"}
        /\ clusters = None
        /\ centroids = <<>>
        /\ iters = 0

SomeClusterEmpty == \E k \in 0..n_clusters - 1 : Members(k) = {}

\* C13: in an iteration in which some centroid has no assigned point, the
\* recomputed centroid is undefined (NaN), so is the total shift, the test
\* shift < sqrt(tol) is not satisfied, and kmeans does not return from it.
C13_EmptyClusterNeverReturns ==
    (pc \in {"test", "done"} /\ SomeClusterEmpty) =>
        /\ \A k \in 0..n_clusters - 1 :
              Members(k) = {} =>
                  \A d \in 1..Len(centroids[k + 1]) : IsNaN(centroids[k + 1][d])
        /\ IsNaN(shift)
        /\ ~RLess[shift, sqrt_tol]
        /\ pc # "done"

C13_Witness ==
    /\ pc = "test"
    /\ iters = 1
    /\ SomeClusterEmpty
    /\ \E k \in 0..n_clusters - 1 : Cardinality(Members(k)) >= 2

\* The within-cluster sum of squares of the assignment cl to the rows of cents.
WCSS(cl, cents) ==
    SumVec([i \in 1..Len(X) |-> SqDist(X[i], cents[cl[i] + 1])])

\* Every centroid index in [0, K) has a point in the assignment cl.
NoneEmpty(cl) ==
    /\ cl # None
    /\ \A k \in 0..n_clusters - 1 : \E i \in 1..Len(cl) : cl[i] = k

\* C14: across iterations in which no cluster is empty the within-cluster sum
\* of squares never increases: not in an Assign step (against the assignment
\* of the iteration before) and not in an Update step.
C14_WCSSNeverIncreases ==
    [][/\ (pc = "assign" /\ pc' = "update" /\ iters >= 1
            /\ NoneEmpty(clusters) /\ NoneEmpty(clusters')) =>
               RLeq[WCSS(clusters', centroids), WCSS(clusters, centroids)]
       /\ (pc = "update" /\ pc' = "test" /\ NoneEmpty(clusters)) =>
               RLeq[WCSS(clusters, centroids'), WCSS(clusters, centroids)]]_vars

C14_Witness ==
    /\ pc = "test"
    /\ iters = 2
    /\ NoneEmpty(clusters)
    /\ centroids # centroids_pre
    /\ RLess[WCSS(clusters, centroids), WCSS(clusters, centroids_pre)]

\* C15: do_training runs at least early_stop epochs (when epochs >=
\* early_stop) whatever the losses and the learning rate: an epoch that leaves
\* fewer than early_stop losses recorded changes nothing and goes on; a later
\* epoch leaves the learning rate or halves it, halving exactly when the last
\* early_stop losses span less than 0.005 of the last loss; the loop is left
\* early only after an epoch that leaves the learning rate below 1e-8, and
\* otherwise after exactly epochs epochs; nothing else ends it.
C15_TrainingRegime ==
    [][/\ pc' # "raised"
       /\ epoch' = epoch + 1 =>
            /\ Len(loss_history') = epoch'
            /\ Len(loss_history') < early_stop => (lr' = lr /\ pc' = "train")
            /\ lr' = lr \/ lr' = RDivInt[lr, 2]
            /\ Len(loss_history') >= early_stop =>
                  (lr' # lr <=> NoImprovement(loss_history', early_stop))
            /\ pc' = "stopped" => RLess[lr', LrFloor]
       /\ pc' = "trained" => (epoch = epochs /\ Len(loss_history) = epochs)
       /\ (pc' \in {"stopped", "trained"} /\ epochs >= early_stop) =>
            Len(loss_history') >= early_stop]_vars

=============================================================================
